---- MODULE Spec2Model ----
(***************************************************************************)
(* The session store (src/js/utils.js, SessionManager), the submission     *)
(* pipeline (src/js/api.js, APIClient) and the flow controller             *)
(* (src/js/api.js, DataManager) of the kidney-dialysis self-assessment     *)
(* tool, as one state machine.                                             *)
(*                                                                         *)
(* JavaScript runs one task at a time, so an action is the code that runs  *)
(* between two suspensions: a handler from its entry to its first real     *)
(* await (the fetch, the body read, the backoff timer), or from the        *)
(* settling of that await to the next one or to the handler's return.      *)
(* The browser (clock, network, user) supplies the other actions.          *)
(*                                                                         *)
(* Thai user-facing texts are written as English glosses; each gloss       *)
(* names the source line of the text it stands for.                        *)
(***************************************************************************)
EXTENDS Integers, Sequences, FiniteSets, TLC

(***************************************************************************)
(* Bounds of the model.                                                    *)
(***************************************************************************)
Epoch == 1000000000      \* Date.now() when the first page is constructed (ms)
MaxIdle == 1             \* whole idle periods (sessionTimeout) the clock may advance
MaxRetriesOpt == 3       \* largest `retries` option a caller passes to sendData
MaxToasts == 1           \* notifications kept on screen from the visibility handler

(***************************************************************************)
(* Program constants.                                                      *)
(***************************************************************************)
timeout == 30000                     \* APIClient.timeout
maxRetries == 3                      \* APIClient.maxRetries
retryDelay == 1000                   \* APIClient.retryDelay
sessionTimeout == 30 * 60 * 1000     \* SessionManager.timeout

(***************************************************************************)
(* JavaScript values.  null/undefined items of localStorage are <<>>, a    *)
(* present item is <<v>>.  A scalar is a tagged record; an object is a     *)
(* function from its own property names to scalars.                        *)
(***************************************************************************)
Null == << >>
Some(v) == << v >>

Num(s) == [t |-> "number", v |-> s]
Str(s) == [t |-> "string", v |-> s]
JSNull == [t |-> "null", v |-> ""]
Undefined == [t |-> "undefined", v |-> ""]
NaN == Num("NaN")
EmptyObject == << >>

\* a number read from a form field: NaN, or the decimal with digits n
NotANumber == [nan |-> TRUE, n |-> 0]
Number(n) == [nan |-> FALSE, n |-> n]

\* { ...a, ...b }
Spread(a, b) ==
  [k \in (DOMAIN a) \cup (DOMAIN b) |-> IF k \in DOMAIN b THEN b[k] ELSE a[k]]

\* JSON.stringify of a flat object: properties whose value is undefined are
\* dropped and NaN is written as null.  The text is kept as its member map.
JSONstringify(obj) ==
  [k \in {j \in DOMAIN obj : obj[j].t # "undefined"} |->
     IF obj[k] = NaN THEN JSNull ELSE obj[k]]

\* JSON.parse of a text written by JSONstringify.
JSONparse(text) == [k \in DOMAIN text |-> text[k]]

\* String.prototype.includes
Includes(s, p) ==
  \E i \in 1..(Len(s) - Len(p) + 1) : SubSeq(s, i, i + Len(p) - 1) = p

\* Number.prototype.toString of a non-negative integer (Date.now().toString())
NumToString(n) == ToString(n)

DigitOf(c) ==
  CASE c = "0" -> 0 [] c = "1" -> 1 [] c = "2" -> 2 [] c = "3" -> 3
    [] c = "4" -> 4 [] c = "5" -> 5 [] c = "6" -> 6 [] c = "7" -> 7
    [] c = "8" -> 8 [] c = "9" -> 9 [] OTHER -> -1

RECURSIVE ParseDigits(_, _, _)
ParseDigits(s, i, acc) ==
  IF i > Len(s) \/ DigitOf(SubSeq(s, i, i)) < 0 THEN acc
  ELSE ParseDigits(s, i + 1, acc * 10 + DigitOf(SubSeq(s, i, i)))

\* parseInt of a decimal string of digits
parseInt(s) == ParseDigits(s, 1, 0)

\* String(null) for an absent item, the string itself otherwise
StringOf(item) == IF item = Null THEN "null" ELSE item[1]

\* Number.prototype.toString of the decimal n / scale (scale 1, 10 or 100)
DecimalToString(n, scale) ==
  LET ip == n \div scale
      fp == n % scale
  IN IF fp = 0 THEN ToString(ip)
     ELSE IF scale = 10 THEN ToString(ip) \o "." \o ToString(fp)
     ELSE IF fp % 10 = 0 THEN ToString(ip) \o "." \o ToString(fp \div 10)
     ELSE ToString(ip) \o "." \o (IF fp < 10 THEN "0" ELSE "") \o ToString(fp)

UpperCase == "ABCDEFGHIJKLMNOPQRSTUVWXYZ"
LowerCase == "abcdefghijklmnopqrstuvwxyz"

LowerChar(c) ==
  IF \E i \in 1..26 : SubSeq(UpperCase, i, i) = c
  THEN LET i == CHOOSE j \in 1..26 : SubSeq(UpperCase, j, j) = c IN SubSeq(LowerCase, i, i)
  ELSE c

RECURSIVE toLowerCase(_)
toLowerCase(s) ==
  IF Len(s) = 0 THEN ""
  ELSE LowerChar(SubSeq(s, 1, 1)) \o toLowerCase(SubSeq(s, 2, Len(s)))

\* String.prototype.trim() !== ''
NonBlank(s) == \E i \in 1..Len(s) : SubSeq(s, i, i) # " "

\* the escapeMap of sanitizeInput
escapeMap(c) ==
  CASE c = "<" -> "&lt;"
    [] c = ">" -> "&gt;"
    [] c = "\"" -> "&quot;"
    [] c = "'" -> "&#x27;"
    [] c = "&" -> "&amp;"
    [] OTHER -> c

\* sanitizeInput of a string: input.replace(/[<>"'&]/g, ...)
RECURSIVE sanitizeInput(_)
sanitizeInput(s) ==
  IF Len(s) = 0 THEN ""
  ELSE escapeMap(SubSeq(s, 1, 1)) \o sanitizeInput(SubSeq(s, 2, Len(s)))

(***************************************************************************)
(* Inputs.                                                                 *)
(***************************************************************************)
\* the instants the clock can show: the start, each whole idle period after
\* it, and the millisecond past the first
Times ==
  {Epoch + i * sessionTimeout : i \in 0..MaxIdle} \cup {Epoch + sessionTimeout + 1}

UUIDs == {"uuid-1"}                  \* values generateUUID can return

Stages == {"G1", "G2", "G3a", "G3b", "G4", "G5"}

DraftG2 == [egfr |-> Num("87.5"), stage |-> Str("G2")]
DraftG5 == [egfr |-> Num("8.92"), stage |-> Str("G5"), comment |-> Undefined]
Drafts == {DraftG2, DraftG5}

Feedback == [rating |-> Str("5")]
FeedbackUnset == [rating |-> Undefined]
Additions == {Feedback, FeedbackUnset}

\* what the eGFR form can hold when it is submitted (main.js:142-147)
FormG1 ==
  [age |-> Number(50), weight |-> Number(720), creatinine |-> Number(100), gender |-> Str("male")]
FormNear90 ==
  [age |-> Number(78), weight |-> Number(1181), creatinine |-> Number(113), gender |-> Str("male")]
FormG5 ==
  [age |-> Number(80), weight |-> Number(500), creatinine |-> Number(500), gender |-> Str("female")]
\* age 65, weight 70 kg, creatinine 1.2 mg/dL, male
FormMale65 ==
  [age |-> Number(65), weight |-> Number(700), creatinine |-> Number(120), gender |-> Str("male")]
\* age 70, weight 60 kg, creatinine 4.0 mg/dL, female
FormFemale70 ==
  [age |-> Number(70), weight |-> Number(600), creatinine |-> Number(400), gender |-> Str("female")]
FormNoAge == [FormG1 EXCEPT !.age = NotANumber]
FormHighCreatinine == [FormG1 EXCEPT !.creatinine = Number(2500)]
FormOtherGender == [FormG1 EXCEPT !.gender = Str("other")]
EGFRForms ==
  {FormG1, FormNear90, FormG5, FormMale65, FormFemale70,
   FormNoAge, FormHighCreatinine, FormOtherGender}

\* the arguments calculateEGFR can be called with: each field at, inside and
\* outside the ends of its range
Ages == {NotANumber, Number(-1), Number(0), Number(1), Number(65), Number(120), Number(121)}
Weights == {NotANumber, Number(9), Number(10), Number(700), Number(3000), Number(3001)}
Creatinines == {NotANumber, Number(9), Number(10), Number(120), Number(2000), Number(2001)}
Genders == {Str("male"), Str("female"), Str("other"), Str(""), JSNull}

\* what the feedback form can hold (main.js:232-235): a rating or none
FeedbackForms ==
  { [rating |-> Str("5"), comment |-> Str("<script>alert(1)</script> & \"it's\"")],
    [rating |-> JSNull, comment |-> JSNull] }

RetryOptions == 0..MaxRetriesOpt

\* the options a caller passes to sendData: any retry maximum with the busy
\* indicator, or no indicator with the default retry maximum
SendOptions ==
  {[showLoading |-> TRUE, retries |-> r] : r \in RetryOptions}
    \cup {[showLoading |-> FALSE, retries |-> maxRetries]}

VARIABLES
  now,        \* Date.now()
  ls,         \* localStorage: sessionId, sessionCreated, lastActivity, ckdData
  isOnline,   \* networkMonitor.isOnline
  overlay,    \* loadingManager.overlay.style.display
  toasts,     \* notifications shown since the current user action began
  call,       \* the submission in progress: its position and local variables
  overlapping \* a second sendData call begun while `call` is in flight

vars == <<now, ls, isOnline, overlay, toasts, call, overlapping>>

(***************************************************************************)
(* SessionManager (src/js/utils.js).  Each method is an operator on the    *)
(* storage l at clock t; a method that both returns a value and writes     *)
(* the storage yields the record [ret, ls].                                *)
(***************************************************************************)
EmptyStorage ==
  [sessionId |-> Null, sessionCreated |-> Null, lastActivity |-> Null, ckdData |-> Null]

getSessionId(l) == l.sessionId

createSession(l, t, id) ==
  [l EXCEPT !.sessionId = Some(id), !.sessionCreated = Some(NumToString(t))]

updateLastActivity(l, t) == [l EXCEPT !.lastActivity = Some(NumToString(t))]

init(l, t, id) ==
  updateLastActivity(IF getSessionId(l) = Null THEN createSession(l, t, id) ELSE l, t)

clearSessionKeepsDraft(l) ==
  [l EXCEPT !.sessionId = Null, !.lastActivity = Null, !.sessionCreated = Null]

clearSession(l) ==
  [l EXCEPT !.sessionId = Null, !.ckdData = Null,
            !.lastActivity = Null, !.sessionCreated = Null]

\* parseInt(localStorage.getItem('lastActivity') || '0')
lastActivityOf(l) == parseInt(IF l.lastActivity = Null THEN "0" ELSE l.lastActivity[1])

checkSessionValidity(l, t) ==
  IF t - lastActivityOf(l) > sessionTimeout
  THEN [ret |-> FALSE, ls |-> clearSession(l)]
  ELSE [ret |-> TRUE, ls |-> l]

\* returns Null (null) or Some(object)
getData(l, t) ==
  LET v == checkSessionValidity(l, t) IN
  IF ~v.ret THEN [ret |-> Null, ls |-> v.ls]
  ELSE [ret |-> IF v.ls.ckdData # Null THEN Some(JSONparse(v.ls.ckdData[1])) ELSE Null,
        ls |-> v.ls]

setDataMerging(l, t, data) ==
  [updateLastActivity(l, t) EXCEPT
     !.ckdData = Some(JSONstringify(Spread(IF l.ckdData = Null THEN EmptyObject
                                           ELSE JSONparse(l.ckdData[1]), data)))]

setData(l, t, data) ==
  [updateLastActivity(l, t) EXCEPT !.ckdData = Some(JSONstringify(data))]

(***************************************************************************)
(* FormValidator (src/js/utils.js) and MedicalCalculator                   *)
(* (calculations.js).  A number read from a form field is NaN or a         *)
(* decimal: the age in years, the weight in tenths of a kilogram, the      *)
(* creatinine in hundredths of a mg/dL.  The score is the exact quotient   *)
(* num / den; the rounding error of the double arithmetic (below 1e-13)    *)
(* is not represented.                                                     *)
(***************************************************************************)
\* required, on a value of a select/radio field (a number, NaN included,
\* always has a non-blank toString())
required(value) == value.t \notin {"null", "undefined"} /\ NonBlank(value.v)

positiveNumber(x) == ~x.nan /\ x.n > 0

range(min, max, x) == ~x.nan /\ x.n >= min /\ x.n <= max

\* FormValidator.validate(formData, this.validationRules): the keys of errors
validate(formData) ==
  {k \in {"age", "weight", "creatinine", "gender"} :
     CASE k = "age" -> ~(positiveNumber(formData.age) /\ range(0, 120, formData.age))
       [] k = "weight" -> ~(positiveNumber(formData.weight) /\ range(10, 3000, formData.weight))
       [] k = "creatinine" ->
            ~(positiveNumber(formData.creatinine) /\ range(10, 2000, formData.creatinine))
       [] OTHER -> ~required(formData.gender)}

validateInputs(inputs) == [isValid |-> validate(inputs) = {}, errors |-> validate(inputs)]

\* eGFR >= 90 and so on, for the score num / den
categorizeEGFR(num, den) ==
  IF num >= 90 * den THEN "G1"
  ELSE IF num >= 60 * den THEN "G2"
  ELSE IF num >= 45 * den THEN "G3a"
  ELSE IF num >= 30 * den THEN "G3b"
  ELSE IF num >= 15 * den THEN "G4"
  ELSE "G5"

\* parseFloat(eGFR.toFixed(2)) of the score num / den, in hundredths
toFixed2(num, den) ==
  LET q == num \div den
      r == num % den
      c == (r * 100) \div den
      r2 == (r * 100) % den
  IN q * 100 + c + (IF 2 * r2 >= den THEN 1 ELSE 0)

getInterpretation(category) ==
  CASE category = "G1" -> "normal or high kidney function"
    [] category = "G2" -> "mildly decreased kidney function"
    [] category = "G3a" -> "mildly to moderately decreased kidney function"
    [] category = "G3b" -> "moderately to severely decreased kidney function"
    [] category = "G4" -> "severely decreased kidney function"
    [] category = "G5" -> "kidney failure"
    [] OTHER -> "cannot be determined"

MsgInvalidInput == "Invalid input data"                           \* calculations.js:30
MsgInvalidGender == "Invalid gender. Must be male or female"      \* calculations.js:46
MsgInvalidResult == "Invalid calculation result"                  \* calculations.js:51

NoCalc == [success |-> FALSE, eGFR |-> 0, category |-> "", error |-> ""]

calculateEGFRMaleOnly(age, weight, serumCreatinine, gender) ==
  LET errors == validate([age |-> age, weight |-> weight,
                          creatinine |-> serumCreatinine, gender |-> gender])
      g == toLowerCase(sanitizeInput(gender.v))
      num == (140 - age.n) * weight.n * 100
      den == 720 * serumCreatinine.n
  IN IF errors # {} THEN [NoCalc EXCEPT !.error = MsgInvalidInput]
     ELSE IF g \notin {"male", "female"} THEN [NoCalc EXCEPT !.error = MsgInvalidGender]
     ELSE IF num < 0 THEN [NoCalc EXCEPT !.error = MsgInvalidResult]
     ELSE [success |-> TRUE, eGFR |-> toFixed2(num, den),
           category |-> categorizeEGFR(num, den), error |-> ""]

calculateEGFR(age, weight, serumCreatinine, gender) ==
  LET errors == validate([age |-> age, weight |-> weight,
                          creatinine |-> serumCreatinine, gender |-> gender])
      g == toLowerCase(sanitizeInput(gender.v))
      num == (140 - age.n) * weight.n * (IF g = "male" THEN 100 ELSE 85)
      den == 720 * serumCreatinine.n
  IN IF errors # {} THEN [NoCalc EXCEPT !.error = MsgInvalidInput]
     ELSE IF g \notin {"male", "female"} THEN [NoCalc EXCEPT !.error = MsgInvalidGender]
     ELSE IF num < 0 THEN [NoCalc EXCEPT !.error = MsgInvalidResult]
     ELSE [success |-> TRUE, eGFR |-> toFixed2(num, den),
           category |-> categorizeEGFR(num, den), error |-> ""]

(***************************************************************************)
(* Notifications and the busy overlay (src/js/utils.js).                   *)
(***************************************************************************)
Toast(type, message) == [type |-> type, message |-> message]

MsgCheckInput == "Please check the data you entered"              \* main.js:153
MsgCalcError == "Calculation error: "                              \* main.js:166
MsgRateFirst == "Please rate your satisfaction"                    \* main.js:238
MsgFeedbackThanks == "Thank you for your feedback"                 \* main.js:246
MsgSessionExpired == "Your session has expired, starting over"   \* main.js:311
MsgNoUsageData == "No usage data found, please start over"       \* main.js:113

(***************************************************************************)
(* The submission in progress.                                             *)
(***************************************************************************)
Error(name, message) == [name |-> name, message |-> message]
NoError == Error("", "")

NoResult ==
  [success |-> FALSE, deferred |-> FALSE, data |-> "", message |-> "",
   error |-> "", userMessage |-> ""]

Returned(v) == [kind |-> "returned", value |-> v]
Thrown(e) == [kind |-> "thrown", value |-> e]
NoOutcome == [kind |-> "none", value |-> NoResult]

\* pc: idle, fetching (fetch pending, abort timer armed), reading (response
\* received, timer cleared, body pending), backoff (delay pending), done
\* (the operation has just returned: the state its caller sees).
\* arg is the object the operation was called with, stage the stage it was
\* called with, option the `retries` option of sendData, retries the parameter of the
\* running fetchWithRetry, attempts the fetch calls made, okAt the attempt
\* whose body was read, delays the arguments of delay(), lastError the
\* error the running fetchWithRetry has caught, sendResult what sendData gave its caller, outcome
\* what the operation gave its own caller.  handler is the form handler
\* that started the operation, form the data it read from its form, calc
\* the result of calculateEGFR.  data is the object sendData was called with,
\* payload the request body it built from it,
\* timer the delay of the pending setTimeout (abort timer or backoff delay,
\* 0 when none): they are locals of sendData / fetchWithRetry and end with
\* them.
NoPayload == [fields |-> EmptyObject, timestamp |-> "", sessionId |-> ""]

Idle ==
  [pc |-> "idle", handler |-> "none", form |-> EmptyObject, calc |-> NoCalc,
   data |-> EmptyObject, payload |-> NoPayload, timer |-> 0,
   op |-> "none", arg |-> EmptyObject, stage |-> "", showLoading |-> FALSE,
   option |-> 0, retries |-> 0, attempts |-> 0, okAt |-> 0, sendCalls |-> 0,
   delays |-> << >>, lastError |-> NoError,
   sendResult |-> NoOutcome, outcome |-> NoOutcome]

(***************************************************************************)
(* The browser: clock, user, network status, page loads.                   *)
(***************************************************************************)
\* The clock moves on.  A pending timer fires when its delay is over: the
\* clock does not move further than that delay while the timer is pending.
Tick ==
  /\ call.pc # "done"
  /\ \E t \in Times :
       /\ t > now
       /\ call.timer = 0 \/ t - now <= call.timer
       /\ now' = t
  /\ UNCHANGED <<ls, isOnline, overlay, toasts, call, overlapping>>

\* mousedown, mousemove, keypress, scroll, touchstart
Interaction ==
  /\ call.pc # "done"
  /\ ls' = updateLastActivity(ls, now)
  /\ UNCHANGED <<now, isOnline, overlay, toasts, call, overlapping>>

\* NetworkMonitor.updateStatus on the window's online / offline events
UpdateStatus ==
  /\ call.pc # "done"
  /\ isOnline' = ~isOnline
  /\ UNCHANGED <<now, ls, overlay, toasts, call, overlapping>>

Pages == {"index", "feedback"}

\* A page is loaded: utils.js constructs the SessionManager, then
\* DOMContentLoaded constructs the KidneyDialysisApp.  The previous page's
\* script, with any submission it had in flight, is gone.
PageLoad ==
  /\ call.pc # "done"
  /\ \E page \in Pages, id \in UUIDs :
    LET l1 == init(ls, now, id)
        g == IF page = "feedback" THEN getData(l1, now) ELSE [ret |-> Some(EmptyObject), ls |-> l1]
        t1 == IF g.ret = Null THEN << Toast("warning", MsgNoUsageData) >> ELSE << >>
        v == checkSessionValidity(g.ls, now)
    IN /\ ls' = v.ls
       /\ toasts' = IF v.ret THEN t1 ELSE Append(t1, Toast("warning", MsgSessionExpired))
       /\ call' = Idle
       /\ overlapping' = "idle"
       /\ overlay' = "none"
       /\ UNCHANGED <<now, isOnline>>

\* document visibilitychange with the page visible
HandleVisibilityChange ==
  LET v == checkSessionValidity(ls, now) IN
  /\ call.pc # "done"
  /\ v.ret \/ Len(toasts) < MaxToasts
  /\ ls' = v.ls
  /\ toasts' = IF v.ret THEN toasts ELSE Append(toasts, Toast("warning", MsgSessionExpired))
  /\ UNCHANGED <<now, isOnline, overlay, call, overlapping>>

\* The storage calls a page script makes on its own events: they are
\* synchronous, and are taken between the submissions of the page.
\* sessionManager.getData() / dataManager.getStoredData()
GetData ==
  /\ call.pc = "idle"
  /\ ls' = getData(ls, now).ls
  /\ UNCHANGED <<now, isOnline, overlay, toasts, call, overlapping>>

\* sessionManager.setData(data)
SetData ==
  /\ call.pc = "idle"
  /\ \E d \in Drafts :
    /\ ls' = setData(ls, now, d)
    /\ UNCHANGED <<now, isOnline, overlay, toasts, call, overlapping>>

updateStoredData(l, t, additionalData) ==
  LET g == getData(l, t)
      currentData == IF g.ret = Null THEN EmptyObject ELSE g.ret[1]
  IN setData(g.ls, t, Spread(currentData, additionalData))

UpdateStoredData ==
  /\ call.pc = "idle"
  /\ \E a \in Additions :
    /\ ls' = updateStoredData(ls, now, a)
    /\ UNCHANGED <<now, isOnline, overlay, toasts, call, overlapping>>


(***************************************************************************)
(* APIClient (src/js/api.js).                                              *)
(***************************************************************************)
MsgOffline == "No internet connection, please check your connection"     \* api.js:33
MsgSent == "Data sent successfully"                                      \* api.js:63
MsgTimeout == "The connection took too long, please try again"           \* api.js:153
MsgUnreachable == "Cannot connect to the server, check your internet"    \* api.js:157
MsgBadRequest == "The data sent is invalid, please check and retry"      \* api.js:161
MsgServerTrouble == "The server is having trouble, try again later"      \* api.js:165
MsgGeneric == "An error occurred while sending data, please try again"   \* api.js:168
MsgConnectionOK == "The connection works"                                \* api.js:269
MsgCannotConnect == "Cannot connect to the server"                       \* api.js:275
MsgSaved == "Data saved"                                                 \* api.js:302
MsgSaveError == "An error occurred while saving data"                    \* api.js:313
MsgNoPatientData == "Patient data not found"                             \* api.js:339
MsgThanks == "Thank you for your data"                                   \* api.js:348
MsgSubmitError == "An error occurred while sending data"                 \* api.js:355

OfflineError == Error("Error", MsgOffline)

\* new Error(`HTTP ${response.status}: ${response.statusText}`)
HTTPError(resp) ==
  Error("Error", "HTTP " \o ToString(resp.status) \o ": " \o resp.statusText)

\* what the transport can answer: a status line (the reason phrase is empty
\* over HTTP/2) ...
Responses ==
  { [status |-> 200, statusText |-> ""],
    [status |-> 400, statusText |-> "Bad Request"],
    [status |-> 404, statusText |-> ""],
    [status |-> 500, statusText |-> "Internal Server Error"],
    [status |-> 503, statusText |-> ""] }

\* ... or a rejection of fetch() / response.text(), worded per browser
NetworkErrors ==
  { Error("TypeError", "Failed to fetch"),
    Error("TypeError", "NetworkError when attempting to fetch resource."),
    Error("TypeError", "Load failed") }

\* the rejection of an aborted fetch (controller.abort() on the timer)
AbortError == Error("AbortError", "signal is aborted without reason")

ResponseText == "ok-body"

ok(resp) == resp.status >= 200 /\ resp.status <= 299

isRetryableErrorAnyStatus(error) ==
  \/ error.name = "AbortError"
  \/ Includes(error.message, "Failed to fetch")
  \/ Includes(error.message, "NetworkError")
  \/ Includes(error.message, "HTTP ")

isRetryableError(error) ==
  \/ error.name = "AbortError"
  \/ Includes(error.message, "Failed to fetch")
  \/ Includes(error.message, "NetworkError")
  \/ Includes(error.message, "HTTP 5")

getUserFriendlyErrorMessage(error) ==
  IF error.name = "AbortError" THEN MsgTimeout
  ELSE IF Includes(error.message, "Failed to fetch") \/ Includes(error.message, "NetworkError")
       THEN MsgUnreachable
  ELSE IF Includes(error.message, "HTTP 4") THEN MsgBadRequest
  ELSE IF Includes(error.message, "HTTP 5") THEN MsgServerTrouble
  ELSE MsgGeneric

\* The part of the state a handler writes while it runs: the storage, the
\* overlay and the notifications.
Effects == [ls |-> ls, overlay |-> overlay, toasts |-> << >>]
Continued == [ls |-> ls, overlay |-> overlay, toasts |-> toasts]

sendDataSettleRethrow(showLoading, c, st) ==
  LET st1 == [st EXCEPT !.overlay = IF showLoading THEN "none" ELSE @] IN
  IF c.kind = "returned"
  THEN [st |-> st1,
        out |-> Returned([NoResult EXCEPT !.success = TRUE, !.data = c.value,
                                          !.message = MsgSent])]
  ELSE [st |-> st1, out |-> c]

\* sendData after fetchWithRetry has settled with c: the return of the try
\* block, or the catch block
sendDataSettle(showLoading, c, st) ==
  LET st1 == [st EXCEPT !.overlay = IF showLoading THEN "none" ELSE @] IN
  IF c.kind = "returned"
  THEN [st |-> st1,
        out |-> Returned([NoResult EXCEPT !.success = TRUE, !.data = c.value,
                                          !.message = MsgSent])]
  ELSE LET userMessage == getUserFriendlyErrorMessage(c.value) IN
       [st |-> [st1 EXCEPT !.toasts = Append(@, Toast("error", userMessage))],
        out |-> Returned([NoResult EXCEPT !.error = c.value.message,
                                          !.userMessage = userMessage])]

(***************************************************************************)
(* DataManager (src/js/api.js): what each operation does with the outcome  *)
(* r of its sendData call.                                                 *)
(***************************************************************************)
ImmediateStagesWithG4 == {"G1", "G2", "G3a", "G3b", "G4"}

ImmediateStagesFromG3 == {"G3a", "G3b"}

\* ['G1', 'G2', 'G3a', 'G3b'].includes(stage)
ImmediateStages == {"G1", "G2", "G3a", "G3b"}

saveCalculationDataSettleToastsFailure(r, st) ==
  IF r.kind = "thrown" \/ ~r.value.success
  THEN [st |-> [st EXCEPT !.toasts = Append(@, Toast("error", MsgSaveError))],
        out |-> IF r.kind = "thrown" THEN Returned([NoResult EXCEPT !.error = r.value.message])
                ELSE r]
  ELSE [st |-> [st EXCEPT !.toasts = Append(@, Toast("success", MsgSaved))],
        out |-> r]

saveCalculationDataSettle(r, st) ==
  IF r.kind = "thrown"
  THEN [st |-> [st EXCEPT !.toasts = Append(@, Toast("error", MsgSaveError))],
        out |-> Returned([NoResult EXCEPT !.error = r.value.message])]
  ELSE [st |-> IF r.value.success
               THEN [st EXCEPT !.toasts = Append(@, Toast("success", MsgSaved))]
               ELSE st,
        out |-> r]

submitCompleteDataSettleAlwaysClear(r, st, t) ==
  IF r.kind = "thrown"
  THEN [st |-> [st EXCEPT !.toasts = Append(@, Toast("error", MsgSubmitError))],
        out |-> Returned([NoResult EXCEPT !.error = r.value.message])]
  ELSE [st |-> [st EXCEPT !.ls = setData(@, t, EmptyObject),
                          !.toasts = IF r.value.success
                                     THEN Append(@, Toast("success", MsgThanks)) ELSE @],
        out |-> r]

submitCompleteDataSettle(r, st, t) ==
  IF r.kind = "thrown"
  THEN [st |-> [st EXCEPT !.toasts = Append(@, Toast("error", MsgSubmitError))],
        out |-> Returned([NoResult EXCEPT !.error = r.value.message])]
  ELSE [st |-> IF r.value.success
               THEN [st EXCEPT !.ls = setData(@, t, EmptyObject),
                               !.toasts = Append(@, Toast("success", MsgThanks))]
               ELSE st,
        out |-> r]

testConnectionSettle(r, st) ==
  [st |-> st,
   out |-> IF r.kind = "thrown"
           THEN Returned([NoResult EXCEPT !.message = MsgCannotConnect])
           ELSE Returned([NoResult EXCEPT !.success = TRUE, !.message = MsgConnectionOK])]

\* The operation has given out to the form handler that called it, which
\* runs to its own return: handleEGFRCalculation shows the result modal,
\* handleFeedbackSubmission thanks the user after a success.
Finish(f, out, st) ==
  [st |-> IF f.handler = "handleFeedbackSubmission" /\ out.kind = "returned"
             /\ out.value.success
          THEN [st EXCEPT !.toasts = Append(@, Toast("success", MsgFeedbackThanks))]
          ELSE st,
   call |-> [f EXCEPT !.pc = "done", !.outcome = out, !.data = EmptyObject,
                      !.payload = NoPayload, !.timer = 0]]

\* fetchWithRetry has settled with c (Returned(text) or Thrown(error)):
\* sendData returns to its caller, which runs to its own return.
Settle(f, c, st) ==
  LET a == sendDataSettle(f.showLoading, c, st)
      b == CASE f.op = "saveCalculationData" -> saveCalculationDataSettle(a.out, a.st)
             [] f.op = "submitCompleteData" -> submitCompleteDataSettle(a.out, a.st, now)
             [] f.op = "testConnection" -> testConnectionSettle(a.out, a.st)
             [] OTHER -> a
  IN Finish([f EXCEPT !.sendResult = a.out], b.out, b.st)

knownOfflineNever == FALSE

\* !window.KDUtils.networkMonitor.isOnline
knownOffline == ~isOnline

\* s, from position i, reads p (letters compared without case)
StartsWithAt(s, i, p) ==
  i + Len(p) - 1 <= Len(s) /\ toLowerCase(SubSeq(s, i, i + Len(p) - 1)) = p

WordChar(c) ==
  \E i \in 1..26 : c \in {SubSeq(UpperCase, i, i), SubSeq(LowerCase, i, i)}
    \/ c \in {"0", "1", "2", "3", "4", "5", "6", "7", "8", "9", "_"}

\* <script\b at position i, with a </script> somewhere after it
ScriptAt(s, i) ==
  /\ SubSeq(s, i, i) = "<"
  /\ StartsWithAt(s, i, "<script")
  /\ i + 7 <= Len(s)
  /\ ~WordChar(SubSeq(s, i + 7, i + 7))
  /\ \E j \in (i + 7)..Len(s) : StartsWithAt(s, j, "</script>")

\* value.replace(/<script\b[^<]*(?:(?!<\/script>)<[^<]*)*<\/script>/gi, ''):
\* each match runs from <script to the first </script> after it
RECURSIVE stripScripts(_)
stripScripts(s) ==
  IF \E i \in 1..Len(s) : ScriptAt(s, i)
  THEN LET i == CHOOSE a \in 1..Len(s) :
                  ScriptAt(s, a) /\ \A b \in 1..(a - 1) : ~ScriptAt(s, b)
           j == CHOOSE a \in (i + 7)..Len(s) :
                  /\ StartsWithAt(s, a, "</script>")
                  /\ \A b \in (i + 7)..(a - 1) : ~StartsWithAt(s, b, "</script>")
       IN SubSeq(s, 1, i - 1) \o stripScripts(SubSeq(s, j + 9, Len(s)))
  ELSE s

sanitizeDataUnescaped(data) ==
  [k \in DOMAIN data |->
     IF data[k].t = "string" THEN Str(stripScripts(data[k].v)) ELSE data[k]]

sanitizeData(data) ==
  [k \in DOMAIN data |->
     IF data[k].t = "string" THEN Str(stripScripts(sanitizeInput(data[k].v))) ELSE data[k]]

\* new Date().toISOString(): the instant, written out
toISOString(t) == ToString(t) \o "ms"

\* The request body: the URLSearchParams entries appended from the
\* sanitized data (null and undefined values are skipped, the others are
\* converted to strings), then the timestamp and sessionId entries.
formDataOf(data, l, t) ==
  LET sanitizedData == sanitizeData(data) IN
  [fields |-> [k \in {j \in DOMAIN sanitizedData :
                        sanitizedData[j].t \notin {"null", "undefined"}} |->
                 sanitizedData[k].v],
   timestamp |-> toISOString(t),
   sessionId |-> StringOf(getSessionId(l))]

\* sendData from its entry to the first fetch (lines 19-54 and 99-107)
sendDataEnter(f, data, st) ==
  LET st1 == [st EXCEPT !.overlay = IF f.showLoading THEN "flex" ELSE @]
      f1 == [f EXCEPT !.sendCalls = @ + 1, !.retries = f.option]
  IN IF knownOffline
     THEN Settle([f1 EXCEPT !.lastError = OfflineError], Thrown(OfflineError), st1)
     ELSE [st |-> st1,
           call |-> [f1 EXCEPT !.pc = "fetching", !.attempts = 1, !.data = data,
                               !.payload = formDataOf(data, st1.ls, now),
                               !.timer = timeout]]

backoffDelayConstant(retries) == retryDelay

\* the argument of delay() before the retry made with `retries` retries left
backoffDelay(retries) == retryDelay * (maxRetries - retries + 1)

mayRetryOffByOne(retries, error) == retries >= 0 /\ isRetryableError(error)

\* retries > 0 && this.isRetryableError(error)
mayRetry(retries, error) == retries > 0 /\ isRetryableError(error)

\* the catch block of fetchWithRetry
fetchWithRetryCatch(f, error, st) ==
  LET f1 == [f EXCEPT !.lastError = error] IN
  IF mayRetry(f.retries, error)
  THEN [st |-> st,
        call |-> [f1 EXCEPT !.pc = "backoff", !.timer = backoffDelay(f.retries),
                            !.delays = Append(@, backoffDelay(f.retries))]]
  ELSE Settle(f1, Thrown(error), st)

Apply(r) ==
  /\ ls' = r.st.ls
  /\ overlay' = r.st.overlay
  /\ toasts' = r.st.toasts
  /\ call' = r.call
  /\ UNCHANGED <<now, isOnline, overlapping>>

Free == call.pc = "idle"

\* apiClient.sendData(data, {showLoading, retries})
SendData ==
  /\ Free
  /\ \E o \in SendOptions :
       Apply(sendDataEnter([Idle EXCEPT !.op = "sendData", !.arg = DraftG2,
                                        !.showLoading = o.showLoading,
                                        !.option = o.retries], DraftG2, Effects))

\* apiClient.testConnection()
TestConnection ==
  /\ Free
  /\ Apply(sendDataEnter([Idle EXCEPT !.op = "testConnection", !.showLoading = FALSE,
                                      !.option = 1],
                         [actionType |-> Str("test_connection"),
                          timestamp |-> Str(toISOString(now))], Effects))

\* apiClient.submitCalculationData(calculationData)
submitCalculationData(f, calculationData, st) ==
  sendDataEnter([f EXCEPT !.showLoading = TRUE, !.option = maxRetries],
                Spread(calculationData, [actionType |-> Str("initial_calculation")]), st)

\* apiClient.submitFullData(fullData)
submitFullData(f, fullData, st) ==
  sendDataEnter([f EXCEPT !.showLoading = TRUE, !.option = maxRetries],
                Spread(fullData, [actionType |-> Str("full_submit")]), st)

\* saveCalculationData from its entry to the first fetch, or to its return
saveCalculationData(f, data, stage, st) ==
  LET st1 == [st EXCEPT !.ls = setData(@, now, data)]
      f1 == [f EXCEPT !.op = "saveCalculationData", !.arg = data, !.stage = stage]
  IN IF stage \in ImmediateStages
     THEN submitCalculationData(f1, data, st1)
     ELSE Finish(f1, Returned([NoResult EXCEPT !.success = TRUE, !.deferred = TRUE]), st1)

submitCompleteDataSendsAnyway(f, additionalData, st) ==
  LET g == getData(st.ls, now)
      st1 == [st EXCEPT !.ls = g.ls]
      f1 == [f EXCEPT !.op = "submitCompleteData", !.arg = additionalData]
  IN submitFullData(f1, Spread(IF g.ret = Null THEN EmptyObject ELSE g.ret[1],
                               additionalData), st1)

\* submitCompleteData from its entry to the first fetch, or to its return
submitCompleteData(f, additionalData, st) ==
  LET g == getData(st.ls, now)
      st1 == [st EXCEPT !.ls = g.ls]
      f1 == [f EXCEPT !.op = "submitCompleteData", !.arg = additionalData]
  IN IF g.ret = Null
     THEN LET b == submitCompleteDataSettle(Thrown(Error("Error", MsgNoPatientData)),
                                            st1, now)
          IN Finish(f1, b.out, b.st)
     ELSE submitFullData(f1, Spread(g.ret[1], additionalData), st1)

\* dataManager.saveCalculationData(data, stage)
SaveCalculationData ==
  /\ Free
  /\ \E d \in Drafts, stage \in Stages : Apply(saveCalculationData(Idle, d, stage, Effects))

\* dataManager.submitCompleteData(additionalData)
SubmitCompleteData ==
  /\ Free
  /\ \E a \in Additions : Apply(submitCompleteData(Idle, a, Effects))

(***************************************************************************)
(* KidneyDialysisApp (src/js/main.js): the two form handlers.              *)
(***************************************************************************)
\* the `data` object of handleEGFRCalculation as stored and sent
NumberValue(x, scale) == IF x.nan THEN NaN ELSE Num(DecimalToString(x.n, scale))

\* the submit event of egfrForm
HandleEGFRCalculation ==
  /\ Free
  /\ \E form \in EGFRForms :
       LET f == [Idle EXCEPT !.handler = "handleEGFRCalculation", !.form = form]
           validation == validateInputs(form)
           result == calculateEGFR(form.age, form.weight, form.creatinine, form.gender)
           calculationData ==
             [sessionId |-> IF getSessionId(ls) = Null THEN JSNull
                            ELSE Str(getSessionId(ls)[1]),
              age |-> NumberValue(form.age, 1),
              weight |-> NumberValue(form.weight, 10),
              creatinine |-> NumberValue(form.creatinine, 100),
              gender |-> form.gender,
              egfr |-> Num(DecimalToString(result.eGFR, 100)),
              stage |-> Str(result.category),
              interpretation |-> Str(getInterpretation(result.category))]
       IN IF ~validation.isValid
          THEN Apply(Finish(f, NoOutcome,
                            [Effects EXCEPT !.toasts = << Toast("error", MsgCheckInput) >>]))
          ELSE IF ~result.success
          THEN Apply(Finish([f EXCEPT !.calc = result], NoOutcome,
                            [Effects EXCEPT !.toasts =
                               << Toast("error", MsgCalcError \o result.error) >>]))
          ELSE Apply(saveCalculationData([f EXCEPT !.calc = result], calculationData,
                                         result.category, Effects))

ratingMissingNever(feedbackData) == FALSE

\* !feedbackData.rating
ratingMissing(feedbackData) ==
  feedbackData.rating.t \in {"null", "undefined"} \/ feedbackData.rating.v = ""

\* the submit event of feedbackForm
HandleFeedbackSubmission ==
  /\ Free
  /\ \E form \in FeedbackForms :
       LET f == [Idle EXCEPT !.handler = "handleFeedbackSubmission", !.form = form]
           feedbackData ==
             [rating |-> form.rating,
              comment |-> IF form.comment.t \in {"null", "undefined"} THEN Str("")
                          ELSE form.comment]
       IN IF ratingMissing(feedbackData)
          THEN Apply(Finish(f, NoOutcome,
                            [Effects EXCEPT !.toasts = << Toast("error", MsgRateFirst) >>]))
          ELSE Apply(submitCompleteData(f, feedbackData, Effects))

(***************************************************************************)
(* The transport: how a pending fetch, body read or delay settles.         *)
(***************************************************************************)
\* the response arrives: clearTimeout, then the status decides
Respond(resp) ==
  IF ok(resp)
  THEN Apply([st |-> Continued, call |-> [call EXCEPT !.pc = "reading", !.timer = 0]])
  ELSE Apply(fetchWithRetryCatch(call, HTTPError(resp), Continued))

FetchResponse ==
  /\ call.pc = "fetching"
  /\ \E resp \in Responses : Respond(resp)

\* the transport that answers 500 to the first two attempts of a call and
\* 200 from the third on
FetchResponse500 ==
  /\ call.pc = "fetching"
  /\ Respond(IF call.attempts <= 2
             THEN [status |-> 500, statusText |-> "Internal Server Error"]
             ELSE [status |-> 200, statusText |-> ""])

\* fetch() rejects
FetchReject ==
  /\ call.pc = "fetching"
  /\ \E e \in NetworkErrors : Apply(fetchWithRetryCatch(call, e, Continued))

\* the abort timer fires while fetch() is pending
FetchTimeout ==
  /\ call.pc = "fetching"
  /\ Apply(fetchWithRetryCatch(call, AbortError, Continued))

\* response.text() resolves
BodyRead ==
  /\ call.pc = "reading"
  /\ Apply(Settle([call EXCEPT !.okAt = call.attempts], Returned(ResponseText), Continued))

\* response.text() rejects
BodyReject ==
  /\ call.pc = "reading"
  /\ \E e \in NetworkErrors : Apply(fetchWithRetryCatch(call, e, Continued))

\* the delay elapses: fetchWithRetry(url, options, retries - 1, timeout)
BackoffElapsed ==
  /\ call.pc = "backoff"
  /\ Apply([st |-> Continued,
            call |-> [call EXCEPT !.pc = "fetching", !.retries = @ - 1,
                                  !.attempts = @ + 1, !.lastError = NoError,
                                  !.timer = timeout]])

\* The operation has returned and its caller has seen the outcome; the
\* notifications are removed when their duration is over (utils.js:98-105).
Forget ==
  /\ call.pc = "done"
  /\ call' = Idle
  /\ toasts' = << >>
  /\ UNCHANGED <<now, ls, isOnline, overlay, overlapping>>

Init ==
  /\ now = Epoch
  /\ \E id \in UUIDs : ls = init(EmptyStorage, Epoch, id)
  /\ isOnline \in BOOLEAN
  /\ overlay = "none"
  /\ toasts = << >>
  /\ call = Idle
  /\ overlapping = "idle"

Browser ==
  \/ Tick
  \/ Interaction
  \/ UpdateStatus
  \/ PageLoad
  \/ HandleVisibilityChange
  \/ GetData
  \/ SetData
  \/ UpdateStoredData

Pipeline ==
  \/ SendData
  \/ TestConnection
  \/ SaveCalculationData
  \/ SubmitCompleteData
  \/ HandleEGFRCalculation
  \/ HandleFeedbackSubmission
  \/ FetchResponse
  \/ FetchReject
  \/ FetchTimeout
  \/ BodyRead
  \/ BodyReject
  \/ BackoffElapsed
  \/ Forget

Next == Browser \/ Pipeline

Spec == Init /\ [][Next]_vars

(***************************************************************************)
(* Two submissions at once.  Nothing in the handlers keeps a form from     *)
(* being submitted again while its first submission is in flight.  The     *)
(* second sendData call (showLoading = true) is followed from its entry    *)
(* (api.js:26-28) to its return (api.js:56-58 or 67-69), which are its     *)
(* writes to the overlay; its own attempts and its notification are not    *)
(* recorded.                                                               *)
(***************************************************************************)
InFlight == call.pc \in {"fetching", "reading", "backoff"}

SendDataAgain ==
  /\ InFlight
  /\ overlapping = "idle"
  /\ IF knownOffline
     THEN overlay' = "none" /\ overlapping' = "idle"
     ELSE overlay' = "flex" /\ overlapping' = "inflight"
  /\ UNCHANGED <<now, ls, isOnline, toasts, call>>

SendDataAgainReturns ==
  /\ overlapping = "inflight"
  /\ overlapping' = "idle"
  /\ overlay' = "none"
  /\ UNCHANGED <<now, ls, isOnline, toasts, call>>

NextOverlap ==
  \/ Pipeline
  \/ UpdateStatus
  \/ SendDataAgain
  \/ SendDataAgainReturns

SpecOverlap == Init /\ [][NextOverlap]_vars

(***************************************************************************)
(* The transport that stalls: it never answers, or it answers 200 and      *)
(* never delivers the body.  The timers are fair: an abort timer that      *)
(* stays pending fires, a backoff delay elapses.                           *)
(***************************************************************************)
FetchResponseOK ==
  /\ call.pc = "fetching"
  /\ Respond([status |-> 200, statusText |-> ""])

NextStalled ==
  \/ Tick
  \/ UpdateStatus
  \/ SendData
  \/ TestConnection
  \/ FetchResponseOK
  \/ FetchTimeout
  \/ BackoffElapsed
  \/ Forget

SpecStalled ==
  Init /\ [][NextStalled]_vars /\ WF_vars(FetchTimeout) /\ WF_vars(BackoffElapsed)

\* the same page over the transport that fails twice with 500
Next500 ==
  \/ Browser
  \/ SendData
  \/ TestConnection
  \/ SaveCalculationData
  \/ SubmitCompleteData
  \/ HandleEGFRCalculation
  \/ HandleFeedbackSubmission
  \/ FetchResponse500
  \/ BodyRead
  \/ BackoffElapsed
  \/ Forget

Spec500 == Init /\ [][Next500]_vars

(***************************************************************************)
(* The failure classes of the specification, by what the transport did.    *)
(***************************************************************************)
ClientErrors == {HTTPError(r) : r \in {x \in Responses : x.status >= 400 /\ x.status <= 499}}
ServerErrors == {HTTPError(r) : r \in {x \in Responses : x.status >= 500 /\ x.status <= 599}}
AttemptErrors == {HTTPError(r) : r \in {x \in Responses : ~ok(x)}} \cup NetworkErrors \cup {AbortError}
RetryableFailures == {AbortError} \cup NetworkErrors \cup ServerErrors
TerminalFailures == AttemptErrors \ RetryableFailures

Done == call.pc = "done"
SendFailed == call.sendResult.kind = "returned" /\ ~call.sendResult.value.success
SendSucceeded == call.sendResult.kind = "returned" /\ call.sendResult.value.success
RetriesConsumed == call.option - call.retries

(***************************************************************************)
(* C1.  An attempt that fails with a failure that is neither a timeout, a  *)
(* network failure nor an HTTP 5xx (every HTTP 4xx) ends the call at that  *)
(* attempt: the call has returned a failure, and the delays waited and the *)
(* retries consumed are those of the earlier attempts only, so a first     *)
(* attempt answered 400 is the only attempt, for every retry maximum.      *)
(***************************************************************************)
C1_TerminalFailureEndsCall ==
  call.lastError \in TerminalFailures =>
    /\ Done
    /\ SendFailed
    /\ Len(call.delays) = call.attempts - 1
    /\ RetriesConsumed = call.attempts - 1

C1_Witness ==
  /\ Done
  /\ call.lastError = HTTPError([status |-> 400, statusText |-> "Bad Request"])
  /\ call.option = maxRetries
  /\ call.attempts = 1
  /\ call.delays = << >>

(***************************************************************************)
(* C2.  A sendData call with retry maximum r makes at most r + 1 attempts, *)
(* makes none after the attempt that succeeded, and when the attempt       *)
(* r + 1 fails with a retryable failure it returns success = false with    *)
(* that failure's reason.                                                  *)
(***************************************************************************)
C2_RetriesCapped ==
  /\ call.attempts <= call.option + 1
  /\ call.okAt # 0 => (Done /\ call.attempts = call.okAt)
  /\ (Done /\ call.attempts = call.option + 1 /\ call.lastError \in RetryableFailures)
       => (SendFailed /\ call.sendResult.value.error = call.lastError.message)

C2_Witness ==
  /\ Done
  /\ call.option = 2
  /\ call.attempts = 3
  /\ call.lastError = HTTPError([status |-> 503, statusText |-> ""])
  /\ SendFailed

(***************************************************************************)
(* C3 (under Spec500, the transport that answers 500 twice and then 200).  *)
(* A sendData call with the default retry maximum that reaches the         *)
(* transport returns success after exactly three attempts and two retries, *)
(* the second delay longer than the first.                                 *)
(***************************************************************************)
C3_SucceedsOnThirdAttempt ==
  (Done /\ call.option = maxRetries /\ call.attempts >= 1) =>
    /\ SendSucceeded
    /\ call.attempts = 3
    /\ call.okAt = 3
    /\ RetriesConsumed = 2
    /\ Len(call.delays) = 2
    /\ call.delays[1] > 0
    /\ call.delays[2] > call.delays[1]

C3_Witness ==
  /\ Done
  /\ call.op = "sendData"
  /\ call.showLoading
  /\ call.option = maxRetries
  /\ SendSucceeded
  /\ call.attempts = 3
  /\ call.delays = << 1000, 2000 >>

(***************************************************************************)
(* C4.  The delay waited before the n-th retry of a call is retryDelay * n *)
(* for every retry maximum passed to sendData.                             *)
(***************************************************************************)
C4_LinearBackoffForEveryOption ==
  \A n \in 1..Len(call.delays) : call.delays[n] = retryDelay * n

(***************************************************************************)
(* C5.  A sendData call entered while the network-status flag is offline   *)
(* returns success = false in that same step, with no attempt made and no  *)
(* delay waited.                                                           *)
(***************************************************************************)
C5_OfflineFailsFast ==
  [][ (call.pc = "idle" /\ ~isOnline /\ call'.sendCalls = 1) =>
        /\ call'.pc = "done"
        /\ call'.sendResult.kind = "returned"
        /\ ~call'.sendResult.value.success
        /\ call'.attempts = 0
        /\ call'.delays = << >> ]_vars

C5_Witness ==
  /\ Done
  /\ call.op = "sendData"
  /\ ~isOnline
  /\ call.lastError = OfflineError
  /\ call.attempts = 0
  /\ SendFailed

(***************************************************************************)
(* C6.  sendData, saveCalculationData and submitCompleteData return an     *)
(* outcome and never throw, and the outcome's success flag is true exactly *)
(* when an attempt succeeded or saveCalculationData deferred.              *)
(***************************************************************************)
C6_NeverThrows ==
  (Done /\ call.op \in {"sendData", "saveCalculationData", "submitCompleteData"}) =>
    /\ call.outcome.kind = "returned"
    /\ call.outcome.value.success <=>
         \/ call.okAt # 0
         \/ (call.op = "saveCalculationData" /\ call.outcome.value.deferred)

C6_Witness ==
  /\ Done
  /\ call.op = "sendData"
  /\ call.lastError = AbortError
  /\ call.outcome.kind = "returned"
  /\ ~call.outcome.value.success

(***************************************************************************)
(* C7.  saveCalculationData writes the draft it was given, then for G1,    *)
(* G2, G3a and G3b enters sendData once and returns what sendData          *)
(* returns, and for G4 and G5 returns success with the deferred marker     *)
(* at once, with no sendData call and no attempt.                          *)
(***************************************************************************)
C7_AtReturn ==
  (Done /\ call.op = "saveCalculationData") =>
    IF call.stage \in {"G1", "G2", "G3a", "G3b"}
    THEN call.sendCalls = 1 /\ call.outcome = call.sendResult
    ELSE /\ call.sendCalls = 0
         /\ call.attempts = 0
         /\ call.outcome = Returned([NoResult EXCEPT !.success = TRUE, !.deferred = TRUE])

C7_StageDispatch ==
  [][ /\ (call.pc = "idle" /\ call'.op = "saveCalculationData") =>
           /\ ls'.ckdData = Some(JSONstringify(call'.arg))
           /\ IF call'.stage \in {"G1", "G2", "G3a", "G3b"}
              THEN call'.sendCalls = 1 /\ (isOnline => call'.pc = "fetching")
              ELSE call'.pc = "done"
      /\ (call.op = "saveCalculationData" /\ call'.op = "saveCalculationData") =>
           call'.sendCalls = call.sendCalls
      /\ C7_AtReturn' ]_vars

C7_Witness ==
  /\ Done
  /\ call.op = "saveCalculationData"
  /\ call.stage = "G5"
  /\ call.attempts = 0
  /\ call.outcome.value.deferred
  /\ ls.ckdData = Some(JSONstringify(call.arg))

(***************************************************************************)
(* C8.  After submitCompleteData has returned success, getData returns     *)
(* nothing.                                                                *)
(***************************************************************************)
C8_DraftDestroyedAfterSuccess ==
  (Done /\ call.op = "submitCompleteData" /\ call.outcome.value.success) =>
    getData(ls, now).ret = Null

(***************************************************************************)
(* C9.  A submission that fails leaves the stored draft as it was when     *)
(* the network call began: no step of saveCalculationData's or             *)
(* submitCompleteData's sendData call changes the storage, except the      *)
(* return of a successful submitCompleteData; a saveCalculationData that   *)
(* fails at once leaves the draft it has just written.                     *)
(***************************************************************************)
C9_FailureKeepsDraft ==
  [][ /\ (/\ call.pc \in {"fetching", "reading", "backoff"}
          /\ call.op \in {"saveCalculationData", "submitCompleteData"}
          /\ call' # call
          /\ call'.op = call.op
          /\ ~(call'.pc = "done" /\ call'.outcome.value.success))
         => ls' = ls
      /\ (/\ call.pc = "idle"
          /\ call'.op \in {"saveCalculationData", "submitCompleteData"}
          /\ call'.sendCalls = 1
          /\ call'.pc = "done"
          /\ ~call'.outcome.value.success)
         => ls'.ckdData = IF call'.op = "saveCalculationData"
                          THEN Some(JSONstringify(call'.arg))
                          ELSE ls.ckdData ]_vars

C9_Witness ==
  /\ Done
  /\ call.op = "submitCompleteData"
  /\ call.attempts = maxRetries + 1
  /\ ~call.outcome.value.success
  /\ ls.ckdData = Some(JSONstringify(DraftG5))

(***************************************************************************)
(* C10.  Once the time since the last activity exceeds the idle threshold  *)
(* over a stored draft, no interaction event and no page load makes that   *)
(* draft readable again: getData after the event returns nothing.          *)
(***************************************************************************)
C10_ExpiredDraftStaysUnreadable ==
  [][ (/\ now - lastActivityOf(ls) > sessionTimeout
       /\ ls.ckdData # Null
       /\ (Interaction \/ PageLoad))
      => getData(ls', now').ret = Null ]_vars

(***************************************************************************)
(* C11.  When the clock is more than the idle threshold past the           *)
(* last-activity timestamp, the next getData returns nothing and leaves    *)
(* the storage without session identifier, draft and both timestamps: all  *)
(* four are removed in that one step.                                      *)
(***************************************************************************)
Expired == now - lastActivityOf(ls) > sessionTimeout

C11_IdleExpiryClearsTogether ==
  [][ /\ Expired => getData(ls, now).ret = Null
      /\ (Expired /\ GetData) => ls' = EmptyStorage ]_vars

C11_Witness ==
  /\ ls = EmptyStorage
  /\ now - Epoch > sessionTimeout
  /\ call.pc = "idle"

(***************************************************************************)
(* C12.  checkSessionValidity returns true exactly when a session          *)
(* identifier exists and the time since the last activity is at most the   *)
(* idle threshold, and when it returns false it has removed the session    *)
(* identifier and the draft.                                               *)
(***************************************************************************)
C12_ValidIffSessionAndFresh ==
  LET v == checkSessionValidity(ls, now) IN
  /\ v.ret <=> (getSessionId(ls) # Null /\ now - lastActivityOf(ls) <= sessionTimeout)
  /\ ~v.ret => (v.ls.sessionId = Null /\ v.ls.ckdData = Null)

(***************************************************************************)
(* C13.  A form handler that fails shows exactly one error notification:   *)
(* none while its submission is being attempted and retried, one when it   *)
(* has returned after a validation failure, a calculation failure, an      *)
(* offline or transport failure or a missing draft, and none when it has   *)
(* returned after a success.                                               *)
(***************************************************************************)
ErrorToasts(ts) == Cardinality({i \in DOMAIN ts : ts[i].type = "error"})

HandlerFailed ==
  call.op = "none" \/ ~(call.outcome.kind = "returned" /\ call.outcome.value.success)

C13_OneErrorToastPerFailure ==
  call.handler # "none" =>
    /\ InFlight => ErrorToasts(toasts) = 0
    /\ Done => ErrorToasts(toasts) = IF HandlerFailed THEN 1 ELSE 0

C13_Witness ==
  /\ Done
  /\ call.handler = "handleEGFRCalculation"
  /\ call.attempts = maxRetries + 1
  /\ HandlerFailed
  /\ ErrorToasts(toasts) = 1

(***************************************************************************)
(* C14.  No attempt stays in flight beyond the per-attempt timeout: while  *)
(* one attempt is waiting for its response or its body, the clock does not *)
(* advance by more than the timeout.                                       *)
(***************************************************************************)
C14_AttemptBoundedByTimeout ==
  [][ (call.pc \in {"fetching", "reading"} /\ call' = call) => now' - now <= timeout ]_vars

(***************************************************************************)
(* C15.  The request body built by sendData carries the timestamp of the   *)
(* call and a sessionId entry whose value is the identifier of the session *)
(* that exists when the body is built.                                     *)
(***************************************************************************)
C15_PayloadCarriesSession ==
  [][ (call.pc = "idle" /\ call'.pc = "fetching") =>
        /\ call'.payload.timestamp = toISOString(now')
        /\ getSessionId(ls') # Null
        /\ call'.payload.sessionId = StringOf(getSessionId(ls')) ]_vars

(***************************************************************************)
(* C16.  updateStoredData(additional) in a valid session leaves a draft    *)
(* with every field stored before and every field of additional, the       *)
(* values of additional winning; the body built by submitCompleteData has  *)
(* an entry for every field of the stored draft and of its argument.       *)
(***************************************************************************)
StoredDraft(l) == IF l.ckdData = Null THEN EmptyObject ELSE JSONparse(l.ckdData[1])

C17_FailsValidation(handler, form) ==
  IF handler = "handleEGFRCalculation"
  THEN \/ form.age.nan \/ form.age.n <= 0 \/ form.age.n > 120
       \/ form.weight.nan \/ form.weight.n < 10 \/ form.weight.n > 3000
       \/ form.creatinine.nan \/ form.creatinine.n < 10 \/ form.creatinine.n > 2000
       \/ form.gender \in {JSNull, Str("")}
  ELSE form.rating \in {JSNull, Str("")}

C17_ValidationFailureStaysLocal ==
  [][ (/\ call.pc = "idle"
       /\ call'.handler # "none"
       /\ C17_FailsValidation(call'.handler, call'.form))
      => /\ call'.pc = "done"
         /\ call'.op = "none"
         /\ call'.sendCalls = 0
         /\ call'.attempts = 0
         /\ call'.payload = NoPayload
         /\ ls' = ls ]_vars

C17_Witness ==
  /\ Done
  /\ call.handler = "handleFeedbackSubmission"
  /\ call.form.rating = JSNull
  /\ call.attempts = 0
  /\ ls.ckdData # Null
  /\ isOnline

(***************************************************************************)
(* C18.  While a sendData call that asked for the busy indicator is in     *)
(* flight the indicator is shown, also when a second call overlaps it      *)
(* (SpecOverlap), and it is hidden when the call has returned.             *)
(***************************************************************************)
C18_IndicatorSpansTheCall ==
  /\ (InFlight /\ call.showLoading) => overlay = "flex"
  /\ (Done /\ call.showLoading /\ call.sendCalls = 1 /\ overlapping = "idle")
       => overlay = "none"

(***************************************************************************)
(* C19 (under SpecStalled, where the timers are fair).  Every submission   *)
(* in flight eventually returns, whatever the transport does.              *)
(***************************************************************************)
C19_EveryCallReturns == InFlight ~> (call.pc \in {"done", "idle"})

(***************************************************************************)
(* C20.  The stage of a successful calculateEGFR result is the stage of    *)
(* its returned (rounded) score: 90.00 and above G1, 60.00 and above G2,   *)
(* 45.00 and above G3a, 30.00 and above G3b, 15.00 and above G4, else G5.  *)
(***************************************************************************)
C20_StageOfReturnedScore ==
  IF call.calc.eGFR >= 9000 THEN "G1"
  ELSE IF call.calc.eGFR >= 6000 THEN "G2"
  ELSE IF call.calc.eGFR >= 4500 THEN "G3a"
  ELSE IF call.calc.eGFR >= 3000 THEN "G3b"
  ELSE IF call.calc.eGFR >= 1500 THEN "G4"
  ELSE "G5"

C20_StageMatchesReturnedScore ==
  call.calc.success => call.calc.category = C20_StageOfReturnedScore

(***************************************************************************)
(* The calculator on its own: calculateEGFR called with every combination  *)
(* of the arguments above.                                                 *)
(***************************************************************************)
\* calculator.calculateEGFR(age, weight, serumCreatinine, gender)
CalculateEGFR ==
  /\ Free
  /\ \E age \in Ages, weight \in Weights, serumCreatinine \in Creatinines, gender \in Genders :
       /\ call' = [Idle EXCEPT !.pc = "done", !.op = "calculateEGFR",
                               !.form = [age |-> age, weight |-> weight,
                                         creatinine |-> serumCreatinine, gender |-> gender],
                               !.calc = calculateEGFR(age, weight, serumCreatinine, gender)]
       /\ UNCHANGED <<now, ls, isOnline, overlay, toasts, overlapping>>

NextCalculator ==
  \/ CalculateEGFR
  \/ Forget

SpecCalculator == Init /\ [][NextCalculator]_vars

(***************************************************************************)
(* C21.  calculateEGFR succeeds, with one of the six stages, on every      *)
(* input with age in 0..120, weight in 1..300, creatinine in 0.1..20 and   *)
(* gender male or female, and fails with no score and no stage on every    *)
(* other input.                                                            *)
(***************************************************************************)
C21_InDomain(form) ==
  /\ ~form.age.nan /\ form.age.n >= 0 /\ form.age.n <= 120
  /\ ~form.weight.nan /\ form.weight.n >= 10 /\ form.weight.n <= 3000
  /\ ~form.creatinine.nan /\ form.creatinine.n >= 10 /\ form.creatinine.n <= 2000
  /\ form.gender \in {Str("male"), Str("female")}

C21_SucceedsExactlyOnDomain ==
  (Done /\ call.op = "calculateEGFR") =>
    IF C21_InDomain(call.form)
    THEN call.calc.success /\ call.calc.category \in Stages
    ELSE ~call.calc.success /\ call.calc.eGFR = 0 /\ call.calc.category = ""

(***************************************************************************)
(* C22.  When sendData has failed, the user message of its outcome and of  *)
(* its notification is the one of the category of the final failure: the   *)
(* timeout message for an abort, the server-unreachable message for a      *)
(* network failure or an offline client, the bad-request message for an    *)
(* HTTP 4xx, the server-trouble message for an HTTP 5xx, the generic       *)
(* message for anything else.                                              *)
(***************************************************************************)
C22_MessageOf(error) ==
  IF error = AbortError THEN MsgTimeout
  ELSE IF error \in NetworkErrors \cup {OfflineError} THEN MsgUnreachable
  ELSE IF error \in ClientErrors THEN MsgBadRequest
  ELSE IF error \in ServerErrors THEN MsgServerTrouble
  ELSE MsgGeneric

C22_MessageOfFailureCategory ==
  (Done /\ SendFailed) =>
    /\ call.sendResult.value.userMessage = C22_MessageOf(call.lastError)
    /\ \E i \in DOMAIN toasts : toasts[i] = Toast("error", C22_MessageOf(call.lastError))

(***************************************************************************)
(* C25.  The last-activity timestamp is set to the clock by every          *)
(* interaction event, it is the clock after the page has become visible    *)
(* (the visibility handler runs checkSessionValidity), and a step that     *)
(* leaves a timestamp does not leave a smaller one.                        *)
(***************************************************************************)
C25_ActivityRefreshed ==
  [][ /\ Interaction => lastActivityOf(ls') = now'
      /\ lastActivityOf(checkSessionValidity(ls, now).ls) = now
      /\ ls'.lastActivity # Null => lastActivityOf(ls') >= lastActivityOf(ls) ]_vars

(***************************************************************************)
(* C29.  No attempt is started while the network-status flag is offline:   *)
(* every step that starts a fetch is taken online.                         *)
(***************************************************************************)
C29_NoAttemptWhileOffline ==
  [][ call'.attempts > call.attempts => isOnline' ]_vars

(***************************************************************************)
(* C30.  A stored draft implies a stored session identifier, and a session *)
(* that checkSessionValidity reports valid has an identifier.              *)
(***************************************************************************)
C30_DraftImpliesSession ==
  /\ ls.ckdData # Null => getSessionId(ls) # Null
  /\ checkSessionValidity(ls, now).ret => getSessionId(ls) # Null

(***************************************************************************)
(* C23.  In the request body sendData builds, a string field of the data   *)
(* is its value with < > " ' and & replaced by their entities: it holds    *)
(* none of the raw characters < > " ' and no <script; a field that is not  *)
(* a string is its value written out, and a null or undefined field has    *)
(* no entry.                                                               *)
(***************************************************************************)
C23_NoRawCharacter(s) ==
  \A i \in 1..Len(s) : SubSeq(s, i, i) \notin {"<", ">", "\"", "'"}

C23_TransmittedFieldsEscaped ==
  [][ (call.pc = "idle" /\ call'.pc = "fetching") =>
        \A k \in DOMAIN call'.data :
          LET value == call'.data[k]
              fields == call'.payload.fields
          IN IF value.t \in {"null", "undefined"} THEN k \notin DOMAIN fields
             ELSE /\ k \in DOMAIN fields
                  /\ IF value.t = "string"
                     THEN /\ C23_NoRawCharacter(fields[k])
                          /\ ~Includes(fields[k], "<script")
                          /\ fields[k] = sanitizeInput(value.v)
                     ELSE fields[k] = value.v ]_vars

C23_Witness ==
  /\ InFlight
  /\ call.handler = "handleFeedbackSubmission"
  /\ call.data.comment = Str("<script>alert(1)</script> & \"it's\"")
  /\ call.payload.fields.comment =
       "&lt;script&gt;alert(1)&lt;/script&gt; &amp; &quot;it&#x27;s&quot;"

(***************************************************************************)
(* C24.  After setData(d), a getData made while at most the idle threshold *)
(* has elapsed returns a record with the fields of d and no other, each    *)
(* reading as it reads in d, whatever draft was stored before.  (A field   *)
(* whose value is undefined is not written by JSON.stringify; it reads as  *)
(* undefined in d and in the record returned.)                             *)
(***************************************************************************)
C24_Read(obj, k) == IF k \in DOMAIN obj THEN obj[k] ELSE Undefined

C24_RoundTrip ==
  [][ \A d \in Drafts :
        (call.pc = "idle" /\ call' = call /\ now' = now /\ ls' = setData(ls, now, d)) =>
          \A t \in Times :
            (t >= now /\ t - now <= sessionTimeout) =>
              LET g == getData(ls', t) IN
              /\ g.ret # Null
              /\ DOMAIN g.ret[1] \subseteq DOMAIN d
              /\ \A k \in DOMAIN d : C24_Read(g.ret[1], k) = d[k] ]_vars

C24_Witness ==
  /\ call.pc = "idle"
  /\ now > Epoch
  /\ ls.lastActivity = Some(NumToString(now))
  /\ ls.ckdData = Some([egfr |-> Num("8.92"), stage |-> Str("G5")])

(***************************************************************************)
(* C26.  The egfrForm submitted with age 65, weight 70, creatinine 1.2,    *)
(* male.  As stated: the score is about 87.5, the stage G2, sendData is    *)
(* entered once, and the draft is stored when the submission has returned. *)
(***************************************************************************)
C26_Scenario == call.handler = "handleEGFRCalculation" /\ call.form = FormMale65

C26_ScenarioG2AsStated ==
  (Done /\ C26_Scenario) =>
    /\ call.calc.eGFR >= 8700 /\ call.calc.eGFR <= 8800
    /\ call.calc.category = "G2"
    /\ call.sendCalls = 1
    /\ ls.ckdData # Null

\* As amended: the score is 60.76.  The handler stores the draft and enters
\* sendData once, in the step of the submit event; no step of the submission
\* enters sendData again or changes the storage; an attempt answered at once
\* is the only one.
C26_ScenarioG2 ==
  [][ /\ (call.pc = "idle" /\ C26_Scenario') =>
           /\ call'.calc.success
           /\ call'.calc.eGFR = 6076
           /\ call'.calc.category = "G2"
           /\ call'.op = "saveCalculationData"
           /\ call'.sendCalls = 1
           /\ isOnline => (call'.pc = "fetching" /\ call'.attempts = 1)
           /\ ls'.ckdData = Some(JSONstringify(call'.arg))
           /\ call'.arg.egfr = Num("60.76") /\ call'.arg.stage = Str("G2")
      /\ (C26_Scenario /\ C26_Scenario' /\ call' # call) =>
           /\ call'.sendCalls = 1
           /\ ls' = ls
           /\ (call'.pc = "done" /\ call'.okAt = 1) =>
                (call'.attempts = 1 /\ call'.outcome.value.success) ]_vars

C26_Witness ==
  /\ Done
  /\ C26_Scenario
  /\ call.calc.eGFR = 6076
  /\ call.outcome.value.success
  /\ call.attempts = 1
  /\ ls.ckdData = Some(JSONstringify(call.arg))

(***************************************************************************)
(* C27.  The egfrForm submitted with age 70, weight 60, creatinine 4.0,    *)
(* female.  As stated: the score is about 8.9, the stage G5, and the       *)
(* handler returns without a sendData call or an attempt.                  *)
(***************************************************************************)
C27_Scenario == call.handler = "handleEGFRCalculation" /\ call.form = FormFemale70

C27_ScenarioG5AsStated ==
  (Done /\ C27_Scenario) =>
    /\ call.calc.eGFR >= 850 /\ call.calc.eGFR <= 950
    /\ call.calc.category = "G5"
    /\ call.sendCalls = 0
    /\ call.attempts = 0

\* As amended: the score is 12.4.  The handler returns in the step of the
\* submit event, deferred, with the draft stored and no request body built.
C27_ScenarioG5 ==
  [][ (call.pc = "idle" /\ C27_Scenario') =>
        /\ call'.calc.success
        /\ call'.calc.eGFR = 1240
        /\ call'.calc.category = "G5"
        /\ call'.pc = "done"
        /\ call'.sendCalls = 0
        /\ call'.attempts = 0
        /\ call'.payload = NoPayload
        /\ call'.outcome = Returned([NoResult EXCEPT !.success = TRUE, !.deferred = TRUE])
        /\ ls'.ckdData = Some(JSONstringify(call'.arg))
        /\ call'.arg.egfr = Num("12.4") /\ call'.arg.stage = Str("G5") ]_vars

C27_Witness ==
  /\ Done
  /\ C27_Scenario
  /\ call.calc.eGFR = 1240
  /\ call.outcome.value.deferred
  /\ isOnline
  /\ ls.ckdData = Some(JSONstringify(call.arg))

(***************************************************************************)
(* A draft written while the final submission is suspended.  localStorage  *)
(* is shared by every handler of the page and every page of the origin:    *)
(* while submitCompleteData awaits its fetch, body or delay, another       *)
(* handler can run setData (directly, or as the first statement of         *)
(* saveCalculationData) or updateStoredData.                               *)
(***************************************************************************)
SetDataWhileSuspended ==
  /\ InFlight
  /\ call.op = "submitCompleteData"
  /\ \E d \in Drafts : ls' = setData(ls, now, d)
  /\ UNCHANGED <<now, isOnline, overlay, toasts, call, overlapping>>

UpdateStoredDataWhileSuspended ==
  /\ InFlight
  /\ call.op = "submitCompleteData"
  /\ \E a \in Additions : ls' = updateStoredData(ls, now, a)
  /\ UNCHANGED <<now, isOnline, overlay, toasts, call, overlapping>>

NextWriters ==
  \/ SetData
  \/ SubmitCompleteData
  \/ SetDataWhileSuspended
  \/ UpdateStoredDataWhileSuspended
  \/ FetchResponse
  \/ BodyRead
  \/ BackoffElapsed
  \/ Forget

SpecWriters == Init /\ [][NextWriters]_vars

(***************************************************************************)
(* C28 (under SpecWriters).  The draft removed by a successful             *)
(* submitCompleteData is the draft it transmitted: when the stored draft   *)
(* is no longer the one the request body was built from, the return of     *)
(* the submission leaves it stored.                                        *)
(***************************************************************************)
\* the stored draft agrees with the data sendData was called with, on every
\* field that does not come from the argument of submitCompleteData
C28_DraftIsTheOneSent ==
  LET own == DOMAIN call.arg \cup {"actionType"} IN
  /\ DOMAIN StoredDraft(ls) \ own = DOMAIN call.data \ own
  /\ \A k \in DOMAIN StoredDraft(ls) \ own : StoredDraft(ls)[k] = call.data[k]

C28_NewerDraftSurvives ==
  [][ (/\ InFlight
       /\ call.op = "submitCompleteData"
       /\ call'.pc = "done"
       /\ call'.outcome.value.success
       /\ ~C28_DraftIsTheOneSent)
      => StoredDraft(ls') = StoredDraft(ls) ]_vars

(***************************************************************************)
(* C31.  submitCompleteData entered when getData returns nothing (no draft *)
(* stored, or the session expired) returns in that step: success = false   *)
(* with the missing-draft reason, no sendData call, no attempt, no request *)
(* body, one error notification, and no draft in the storage.              *)
(***************************************************************************)
C31_NoDraftNoSubmission ==
  [][ (/\ call.pc = "idle"
       /\ call'.op = "submitCompleteData"
       /\ getData(ls, now).ret = Null)
      => /\ call'.pc = "done"
         /\ call'.outcome.kind = "returned"
         /\ ~call'.outcome.value.success
         /\ call'.outcome.value.error = MsgNoPatientData
         /\ call'.sendCalls = 0
         /\ call'.attempts = 0
         /\ call'.payload = NoPayload
         /\ ErrorToasts(toasts') = 1
         /\ ls'.ckdData = Null ]_vars

C31_Witness ==
  /\ Done
  /\ call.op = "submitCompleteData"
  /\ call.outcome.value.error = MsgNoPatientData
  /\ call.attempts = 0
  /\ isOnline
  /\ ls = EmptyStorage
  /\ toasts = << Toast("error", MsgSubmitError) >>

(***************************************************************************)
(* C32.  testConnection returns success = true only if its sendData call   *)
(* returned success = true.                                                *)
(***************************************************************************)
C32_TestConnectionReportsSend ==
  (Done /\ call.op = "testConnection") =>
    (call.outcome.value.success => SendSucceeded)

====
